---- MODULE Spec2Model ----
(***************************************************************************)
(* The color-token language server: the pattern library, the color codec,  *)
(* the per-document color token cache, detection (findColorTokens), the    *)
(* reference resolver and the asynchronous request handlers, each          *)
(* suspended only while a workspace/configuration request is outstanding.  *)
(*                                                                         *)
(* Strings of the program are tuples of one-character strings, so that the *)
(* regular expressions are matched character by character.  Offsets are    *)
(* 0-based as in the source; tuple indices are 1-based.                    *)
(***************************************************************************)
EXTENDS Integers, Sequences, FiniteSets, TLC

(***************************************************************************)
(* Character classes of the patterns.                                      *)
(***************************************************************************)
Digits == {"0", "1", "2", "3", "4", "5", "6", "7", "8", "9"}

LowerAlpha ==
    {"a", "b", "c", "d", "e", "f", "g", "h", "i", "j", "k", "l", "m",
     "n", "o", "p", "q", "r", "s", "t", "u", "v", "w", "x", "y", "z"}

UpperAlpha ==
    {"A", "B", "C", "D", "E", "F", "G", "H", "I", "J", "K", "L", "M",
     "N", "O", "P", "Q", "R", "S", "T", "U", "V", "W", "X", "Y", "Z"}

\* [0-9a-fA-F]
HexDigits == Digits \cup {"a", "b", "c", "d", "e", "f", "A", "B", "C", "D", "E", "F"}

\* [a-zA-Z0-9\-] of cssVariablePattern
CssVarChars == LowerAlpha \cup UpperAlpha \cup Digits \cup {"-"}

\* [a-zA-Z0-9-_] of jsonKeyPattern
JsonKeyChars == LowerAlpha \cup UpperAlpha \cup Digits \cup {"-", "_"}

\* \s, as far as the documents of the model use it
Whitespace == {" ", "\t", "\n", "\r"}

CharAt(s, i) == IF i >= 1 /\ i <= Len(s) THEN s[i] ELSE ""

\* The length of the longest run of characters of class cls starting at s[i].
RECURSIVE RunLen(_, _, _)
RunLen(s, i, cls) ==
    IF i >= 1 /\ i <= Len(s) /\ s[i] \in cls THEN 1 + RunLen(s, i + 1, cls) ELSE 0

Max(a, b) == IF a >= b THEN a ELSE b

Min(a, b) == IF a <= b THEN a ELSE b

(***************************************************************************)
(* colorTokenPattern: # then 6 hex digits and optionally 2 more, or else   *)
(* 3 hex digits and optionally 1 more.  HexLenAt is the length of the      *)
(* match that starts at s[i], 0 when there is none.                        *)
(***************************************************************************)
HexLenAt(s, i) ==
    IF CharAt(s, i) # "#" THEN 0
    ELSE LET n == RunLen(s, i + 1, HexDigits)
         IN  IF n >= 8 THEN 9
             ELSE IF n >= 6 THEN 7
             ELSE IF n >= 4 THEN 5
             ELSE IF n >= 3 THEN 4
             ELSE 0

\* Every match of a global regex.exec loop, in text order, from s[i] on.
RECURSIVE HexMatchesFrom(_, _)
HexMatchesFrom(s, i) ==
    IF i > Len(s) THEN << >>
    ELSE LET n == HexLenAt(s, i)
         IN  IF n > 0
             THEN <<[index |-> i - 1, length |-> n]>> \o HexMatchesFrom(s, i + n)
             ELSE HexMatchesFrom(s, i + 1)

colorTokenPattern(s) == HexMatchesFrom(s, 1)

(***************************************************************************)
(* rgbArrayPattern.  One integer is 25[0-5] | 2[0-4][0-9] | 1[0-9]{2} |    *)
(* [1-9]?[0-9]; IntLens is the set of lengths the alternatives can consume *)
(* at s[p].                                                                *)
(***************************************************************************)
\* IntLens with 25[0-9] for 25[0-5].
IntLens_To259(s, p) ==
    LET a == CharAt(s, p)
        b == CharAt(s, p + 1)
        c == CharAt(s, p + 2)
    IN  {l \in 1..3 :
            \/ l = 3 /\ a = "2" /\ b = "5" /\ c \in Digits
            \/ l = 3 /\ a = "2" /\ b \in {"0", "1", "2", "3", "4"} /\ c \in Digits
            \/ l = 3 /\ a = "1" /\ b \in Digits /\ c \in Digits
            \/ l = 2 /\ a \in (Digits \ {"0"}) /\ b \in Digits
            \/ l = 1 /\ a \in Digits}

\* IntLens with [0-9]?[0-9] for [1-9]?[0-9] and [01][0-9]{2} for 1[0-9]{2}.
IntLens_LeadingZeros(s, p) ==
    LET a == CharAt(s, p)
        b == CharAt(s, p + 1)
        c == CharAt(s, p + 2)
    IN  {l \in 1..3 :
            \/ l = 3 /\ a = "2" /\ b = "5" /\ c \in {"0", "1", "2", "3", "4", "5"}
            \/ l = 3 /\ a = "2" /\ b \in {"0", "1", "2", "3", "4"} /\ c \in Digits
            \/ l = 3 /\ a \in {"0", "1"} /\ b \in Digits /\ c \in Digits
            \/ l = 2 /\ a \in Digits /\ b \in Digits
            \/ l = 1 /\ a \in Digits}

IntLens(s, p) ==
    LET a == CharAt(s, p)
        b == CharAt(s, p + 1)
        c == CharAt(s, p + 2)
    IN  {l \in 1..3 :
            \/ l = 3 /\ a = "2" /\ b = "5" /\ c \in {"0", "1", "2", "3", "4", "5"}
            \/ l = 3 /\ a = "2" /\ b \in {"0", "1", "2", "3", "4"} /\ c \in Digits
            \/ l = 3 /\ a = "1" /\ b \in Digits /\ c \in Digits
            \/ l = 2 /\ a \in (Digits \ {"0"}) /\ b \in Digits
            \/ l = 1 /\ a \in Digits}

\* (\s*)INT(\s*)term at s[p]: the set of [int, next]: where the integer
\* starts, its length, and the index after term.  The run of whitespace is
\* greedy and nothing it could give back starts an integer.
IntThen(s, p, term) ==
    LET q == p + RunLen(s, p, Whitespace)
    IN  {[start |-> q, len |-> l, next |-> q + l + RunLen(s, q + l, Whitespace) + 1] :
            l \in {k \in IntLens(s, q) :
                      CharAt(s, q + k + RunLen(s, q + k, Whitespace)) = term}}

\* The match that starts at s[i], as a set with at most one element.
RgbAt(s, i) ==
    IF CharAt(s, i) # "{" THEN {}
    ELSE UNION {UNION {{[index |-> i - 1, length |-> b.next - i,
                         r |-> SubSeq(s, r.start, r.start + r.len - 1),
                         g |-> SubSeq(s, g.start, g.start + g.len - 1),
                         b |-> SubSeq(s, b.start, b.start + b.len - 1)] :
                           b \in IntThen(s, g.next, "}")} :
                       g \in IntThen(s, r.next, ",")} :
                r \in IntThen(s, i + 1, ",")}

RECURSIVE RgbMatchesFrom(_, _)
RgbMatchesFrom(s, i) ==
    IF i > Len(s) THEN << >>
    ELSE LET ms == RgbAt(s, i)
         IN  IF ms # {}
             THEN LET m == CHOOSE x \in ms : TRUE
                  IN  <<m>> \o RgbMatchesFrom(s, i + m.length)
             ELSE RgbMatchesFrom(s, i + 1)

rgbArrayPattern(s) == RgbMatchesFrom(s, 1)

(***************************************************************************)
(* cssVariablePattern: var(--NAME) with NAME in [a-zA-Z0-9-]+.             *)
(***************************************************************************)
CssVarPrefix == <<"v", "a", "r", "(", "-", "-">>

CssVarLenAt(s, i) ==
    IF i + 5 <= Len(s) /\ SubSeq(s, i, i + 5) = CssVarPrefix
    THEN LET n == RunLen(s, i + 6, CssVarChars)
         IN  IF n >= 1 /\ CharAt(s, i + 6 + n) = ")" THEN n + 7 ELSE 0
    ELSE 0

RECURSIVE CssVarMatchesFrom(_, _)
CssVarMatchesFrom(s, i) ==
    IF i > Len(s) THEN << >>
    ELSE LET n == CssVarLenAt(s, i)
         IN  IF n > 0
             THEN <<[index |-> i - 1, length |-> n,
                     cssVar |-> SubSeq(s, i + 6, i + n - 2)]>>
                  \o CssVarMatchesFrom(s, i + n)
             ELSE CssVarMatchesFrom(s, i + 1)

cssVariablePattern(s) == CssVarMatchesFrom(s, 1)

(***************************************************************************)
(* jsonKeyPattern: a run of [a-zA-Z0-9-_] right after a quote and right    *)
(* before the same quote, optional whitespace and a colon.  The match is   *)
(* the run alone (the quotes are lookbehind and lookahead).                *)
(***************************************************************************)
JsonKeyLenAt(s, i) ==
    LET n == RunLen(s, i, JsonKeyChars)
        q == CharAt(s, i - 1)
    IN  IF /\ n >= 1
           /\ q \in {"\"", "'"}
           /\ CharAt(s, i + n) = q
           /\ CharAt(s, i + n + 1 + RunLen(s, i + n + 1, Whitespace)) = ":"
        THEN n
        ELSE 0

RECURSIVE JsonKeyMatchesFrom(_, _)
JsonKeyMatchesFrom(s, i) ==
    IF i > Len(s) THEN << >>
    ELSE LET n == JsonKeyLenAt(s, i)
         IN  IF n > 0
             THEN <<[index |-> i - 1, length |-> n, name |-> SubSeq(s, i, i + n - 1)]>>
                  \o JsonKeyMatchesFrom(s, i + n)
             ELSE JsonKeyMatchesFrom(s, i + 1)

jsonKeyPattern(s) == JsonKeyMatchesFrom(s, 1)

(***************************************************************************)
(* Number and string conversions of the runtime.                           *)
(***************************************************************************)
DigitSeq == <<"0", "1", "2", "3", "4", "5", "6", "7", "8", "9">>

HexSeq == DigitSeq \o <<"a", "b", "c", "d", "e", "f">>

LowerSeq ==
    <<"a", "b", "c", "d", "e", "f", "g", "h", "i", "j", "k", "l", "m",
      "n", "o", "p", "q", "r", "s", "t", "u", "v", "w", "x", "y", "z">>

UpperSeq ==
    <<"A", "B", "C", "D", "E", "F", "G", "H", "I", "J", "K", "L", "M",
      "N", "O", "P", "Q", "R", "S", "T", "U", "V", "W", "X", "Y", "Z">>

IndexIn(seq, c) == CHOOSE i \in 1..Len(seq) : seq[i] = c

\* String.prototype.toUpperCase / toLowerCase
toUpperCase(s) ==
    [i \in 1..Len(s) |-> IF s[i] \in LowerAlpha THEN UpperSeq[IndexIn(LowerSeq, s[i])] ELSE s[i]]

toLowerCase(s) ==
    [i \in 1..Len(s) |-> IF s[i] \in UpperAlpha THEN LowerSeq[IndexIn(UpperSeq, s[i])] ELSE s[i]]

\* The value of one digit in a radix up to 16.
DigitValue(c) == IndexIn(HexSeq, CHOOSE l \in {toLowerCase(<<c>>)[1]} : TRUE) - 1

\* parseInt(s, radix) of a string of digits of that radix.
RECURSIVE parseInt(_, _)
parseInt(s, radix) ==
    IF s = << >> THEN 0
    ELSE parseInt(SubSeq(s, 1, Len(s) - 1), radix) * radix + DigitValue(s[Len(s)])

\* Number.prototype.toString(radix) of a natural number.
RECURSIVE NumberToString(_, _)
NumberToString(n, radix) ==
    IF n < radix THEN <<HexSeq[n + 1]>>
    ELSE NumberToString(n \div radix, radix) \o <<HexSeq[(n % radix) + 1]>>

\* String.prototype.padStart(2, "0")
padStart2(s) == IF Len(s) < 2 THEN <<"0">> \o s ELSE s

(***************************************************************************)
(* Colors.  A channel of a Color is a number of [0, 1]; it is kept as the  *)
(* fraction n/d.  Math.floor(val * 255) is exact for the channels used:    *)
(* for val = k/255 the double product floors to k for every k in 0..255.   *)
(***************************************************************************)
Frac(n, d) == [n |-> n, d |-> d]

FloorTimes255(val) == (val.n * 255) \div val.d

LessThanOne(val) == val.n < val.d

\* convertShortHexCodeToFullHexCode: every digit after the # doubled.
RECURSIVE DoubleEach(_)
DoubleEach(s) == IF s = << >> THEN << >> ELSE <<s[1], s[1]>> \o DoubleEach(Tail(s))

convertShortHexCodeToFullHexCode(color) == <<"#">> \o DoubleEach(Tail(color))

\* color.slice(a, b) for 0 <= a <= b
Slice(s, a, b) == SubSeq(s, a + 1, Min(b, Len(s)))

\* parseColor expanding 3-digit literals only (color.length < 5).
parseColor_ThreeDigitsOnly(color) ==
    LET full == IF Len(color) < 5 THEN convertShortHexCodeToFullHexCode(color) ELSE color
    IN  [red   |-> Frac(parseInt(Slice(full, 1, 3), 16), 255),
         green |-> Frac(parseInt(Slice(full, 3, 5), 16), 255),
         blue  |-> Frac(parseInt(Slice(full, 5, 7), 16), 255),
         alpha |-> IF Len(full) = 9
                   THEN Frac(parseInt(Slice(full, 7, 9), 16), 255)
                   ELSE Frac(255, 255)]

parseColor(color) ==
    LET full == IF Len(color) < 6 THEN convertShortHexCodeToFullHexCode(color) ELSE color
    IN  [red   |-> Frac(parseInt(Slice(full, 1, 3), 16), 255),
         green |-> Frac(parseInt(Slice(full, 3, 5), 16), 255),
         blue  |-> Frac(parseInt(Slice(full, 5, 7), 16), 255),
         alpha |-> IF Len(full) = 9
                   THEN Frac(parseInt(Slice(full, 7, 9), 16), 255)
                   ELSE Frac(255, 255)]

\* valueToCode without the leading zero of a one-digit code.
valueToCode_NoLeadingZero(val) == NumberToString(FloorTimes255(val), 16)

valueToCode(val) ==
    LET result == NumberToString(FloorTimes255(val), 16)
    IN  IF Len(result) = 1 THEN <<"0">> \o result ELSE result

\* stringifyColor without the casing branch: always upper case.
stringifyColor_AlwaysUppercase(color, casing) ==
    toUpperCase(<<"#">> \o valueToCode(color.red) \o valueToCode(color.green)
                \o valueToCode(color.blue)
                \o (IF LessThanOne(color.alpha) THEN valueToCode(color.alpha) ELSE << >>))

stringifyColor(color, casing) ==
    LET rgb == <<"#">> \o valueToCode(color.red) \o valueToCode(color.green)
                       \o valueToCode(color.blue)
        result == IF LessThanOne(color.alpha) THEN rgb \o valueToCode(color.alpha) ELSE rgb
    IN  IF casing = "Lowercase" THEN toLowerCase(result) ELSE toUpperCase(result)

colorToRgbArray(color) ==
    <<"{">> \o NumberToString(FloorTimes255(color.red), 10) \o <<",">>
            \o NumberToString(FloorTimes255(color.green), 10) \o <<",">>
            \o NumberToString(FloorTimes255(color.blue), 10) \o <<"}">>

\* The hex form findColorTokens gives a matched triplet.
rgbToHexColor(m) ==
    <<"#">> \o padStart2(NumberToString(parseInt(m.r, 10), 16))
            \o padStart2(NumberToString(parseInt(m.g, 10), 16))
            \o padStart2(NumberToString(parseInt(m.b, 10), 16))

(***************************************************************************)
(* TextDocument.positionAt and the text of one line.                       *)
(***************************************************************************)
RECURSIVE CountNewlines(_, _)
CountNewlines(s, n) ==
    IF n = 0 THEN 0 ELSE CountNewlines(s, n - 1) + (IF s[n] = "\n" THEN 1 ELSE 0)

\* The offset at which the line holding offset n starts.
RECURSIVE LineStart(_, _)
LineStart(s, n) == IF n = 0 \/ s[n] = "\n" THEN n ELSE LineStart(s, n - 1)

positionAt(s, offset) ==
    LET n == Max(0, Min(offset, Len(s)))
    IN  [line |-> CountNewlines(s, n), character |-> n - LineStart(s, n)]

\* offsetAt({line, character: 0}): the text length when the line is past the end.
RECURSIVE LineOffset(_, _, _)
LineOffset(s, line, from) ==
    IF line = 0 THEN from
    ELSE IF from >= Len(s) THEN Len(s)
    ELSE LineOffset(s, IF s[from + 1] = "\n" THEN line - 1 ELSE line, from + 1)

\* getText({start: {line, 0}, end: {line + 1, 0}})
LineText(s, line) == Slice(s, LineOffset(s, line, 0), LineOffset(s, line + 1, 0))

RangeOf(s, index, length) ==
    [start |-> positionAt(s, index), end |-> positionAt(s, index + length)]

(***************************************************************************)
(* Settings.                                                               *)
(***************************************************************************)
DefaultMaxNumberOfColorTokens == 1000

defaultSettings ==
    [maxNumberOfColorTokens |-> DefaultMaxNumberOfColorTokens,
     colorTokenCasing       |-> "Uppercase",
     languages              |-> <<"json", "jsonc", "cpp", "c++">>,
     cssLanguages           |-> <<"css", "less">>]

\* The values the client's jsonColorToken section takes in the model: the
\* default lists with a cap of 4, and a cap of 1 with lists in which json is
\* in both and cpp in neither.
ConfigA ==
    [maxNumberOfColorTokens |-> 4,
     colorTokenCasing       |-> "Uppercase",
     languages              |-> <<"json", "jsonc", "cpp", "c++">>,
     cssLanguages           |-> <<"css", "less">>]

ConfigB ==
    [maxNumberOfColorTokens |-> 1,
     colorTokenCasing       |-> "Lowercase",
     languages              |-> <<"json", "jsonc">>,
     cssLanguages           |-> <<"css", "less", "json">>]

RemoteConfigs == {ConfigA, ConfigB}

\* cachedLanguages / cachedCSSLanguages before the first fetch
Undefined == <<"undefined">>

\* list.indexOf(x) >= 0
Includes(list, x) == \E i \in 1..Len(list) : list[i] = x

(***************************************************************************)
(* The documents of the model.  A text is named by a short id in the       *)
(* state; Text gives its characters.                                       *)
(***************************************************************************)
Uris == {"a.json", "b.json", "n.json", "t.json", "s.css", "m.cpp", "t.cpp"}

LanguageOf(uri) ==
    CASE uri = "a.json" -> "json"
      [] uri = "b.json" -> "json"
      [] uri = "n.json" -> "json"
      [] uri = "t.json" -> "json"
      [] uri = "s.css"  -> "css"
      [] uri = "m.cpp"  -> "cpp"
      [] uri = "t.cpp"  -> "cpp"

TextsOf(uri) ==
    CASE uri = "a.json" -> {"J1", "J2", "J3"}
      [] uri = "b.json" -> {"J4"}
      [] uri = "n.json" -> {"J2", "J5"}
      [] uri = "t.json" -> {"M2"}
      [] uri = "s.css"  -> {"S1", "S2"}
      [] uri = "m.cpp"  -> {"M1"}
      [] uri = "t.cpp"  -> {"M2"}

\* {"primary":"#336699"}
TextJ1 ==
    <<"{", "\"", "p", "r", "i", "m", "a", "r", "y", "\"", ":", "\"", "#", "3", "3", "6",
      "6", "9", "9", "\"", "}">>

\* {"primary":"#fff",\n"accent":"#00000050"}
TextJ2 ==
    <<"{", "\"", "p", "r", "i", "m", "a", "r", "y", "\"", ":", "\"", "#", "f", "f", "f",
      "\"", ",", "\n", "\"", "a", "c", "c", "e", "n", "t", "\"", ":", "\"", "#", "0", "0",
      "0", "0", "0", "0", "5", "0", "\"", "}">>

\* {"primary":"#abc",      (not JSON: the object is not closed)
TextJ3 ==
    <<"{", "\"", "p", "r", "i", "m", "a", "r", "y", "\"", ":", "\"", "#", "a", "b", "c",
      "\"", ",">>

\* {"accent":"#abc","n":1,"r":"var(--accent)"}
TextJ4 ==
    <<"{", "\"", "a", "c", "c", "e", "n", "t", "\"", ":", "\"", "#", "a", "b", "c", "\"",
      ",", "\"", "n", "\"", ":", "1", ",", "\"", "r", "\"", ":", "\"", "v", "a", "r", "(",
      "-", "-", "a", "c", "c", "e", "n", "t", ")", "\"", "}">>

\* {"primary":"see #fff here"}
TextJ5 ==
    <<"{", "\"", "p", "r", "i", "m", "a", "r", "y", "\"", ":", "\"", "s", "e", "e", " ",
      "#", "f", "f", "f", " ", "h", "e", "r", "e", "\"", "}">>

\* var(--primary) #fff\nvar(--accent)var(--primary)var(--x)
TextS1 ==
    <<"v", "a", "r", "(", "-", "-", "p", "r", "i", "m", "a", "r", "y", ")", " ", "#", "f",
      "f", "f", "\n", "v", "a", "r", "(", "-", "-", "a", "c", "c", "e", "n", "t", ")", "v",
      "a", "r", "(", "-", "-", "p", "r", "i", "m", "a", "r", "y", ")", "v", "a", "r", "(",
      "-", "-", "x", ")">>

\* var(--constructor)
TextS2 ==
    <<"v", "a", "r", "(", "-", "-", "c", "o", "n", "s", "t", "r", "u", "c", "t", "o", "r",
      ")">>

\* {255, 0, 0} #fff #ABCDEF12 #123
TextM1 ==
    <<"{", "2", "5", "5", ",", " ", "0", ",", " ", "0", "}", " ", "#", "f", "f", "f", " ",
      "#", "A", "B", "C", "D", "E", "F", "1", "2", " ", "#", "1", "2", "3">>

\* {1,2,3} #abc {4,5,6} #def {7,8,9}
TextM2 ==
    <<"{", "1", ",", "2", ",", "3", "}", " ", "#", "a", "b", "c", " ", "{", "4", ",",
      "5", ",", "6", "}", " ", "#", "d", "e", "f", " ", "{", "7", ",", "8", ",", "9",
      "}">>

Text(id) ==
    CASE id = "J1" -> TextJ1
      [] id = "J2" -> TextJ2
      [] id = "J3" -> TextJ3
      [] id = "J4" -> TextJ4
      [] id = "J5" -> TextJ5
      [] id = "S1" -> TextS1
      [] id = "S2" -> TextS2
      [] id = "M1" -> TextM1
      [] id = "M2" -> TextM2

NamePrimary == <<"p", "r", "i", "m", "a", "r", "y">>

NameAccent == <<"a", "c", "c", "e", "n", "t">>

NameN == <<"n">>

NameR == <<"r">>

NameConstructor == <<"c", "o", "n", "s", "t", "r", "u", "c", "t", "o", "r">>

JsonString(chars) == [type |-> "string", chars |-> chars]

JsonNumber == [type |-> "number", chars |-> << >>]

\* JSON.parse(text): the object it returns for each text of the model, or
\* the SyntaxError it throws.
JSONParse(text) ==
    CASE text = TextJ1 ->
           [ok |-> TRUE,
            obj |-> (NamePrimary :> JsonString(<<"#", "3", "3", "6", "6", "9", "9">>))]
      [] text = TextJ2 ->
           [ok |-> TRUE,
            obj |-> (NamePrimary :> JsonString(<<"#", "f", "f", "f">>)
                     @@ NameAccent :>
                          JsonString(<<"#", "0", "0", "0", "0", "0", "0", "5", "0">>))]
      [] text = TextJ4 ->
           [ok |-> TRUE,
            obj |-> (NameAccent :> JsonString(<<"#", "a", "b", "c">>)
                     @@ NameN :> JsonNumber
                     @@ NameR :> JsonString(<<"v", "a", "r", "(", "-", "-">>
                                            \o NameAccent \o <<")">>))]
      [] text = TextJ5 ->
           [ok |-> TRUE,
            obj |-> (NamePrimary :>
                       JsonString(<<"s", "e", "e", " ", "#", "f", "f", "f", " ", "h", "e",
                                    "r", "e">>))]
      [] OTHER -> [ok |-> FALSE, obj |-> << >>]

\* The names every object inherits from Object.prototype that
\* cssVariablePattern can capture (the model's documents use the first).
ObjectPrototypeKeys == {NameConstructor}

\* obj[name] of a parsed JSON object
JsonGet(obj, name) ==
    IF name \in DOMAIN obj THEN obj[name]
    ELSE IF name \in ObjectPrototypeKeys THEN [type |-> "function", chars |-> << >>]
    ELSE [type |-> "undefined", chars |-> << >>]

isColorToken(token) ==
    token.type = "string" /\ Len(colorTokenPattern(token.chars)) > 0

(***************************************************************************)
(* colorTokenCache: an object keyed by document uri, kept as the sequence  *)
(* of its [uri, obj] entries in the order Object.keys enumerates them (the *)
(* order in which the keys were created).  obj maps a variable name to its *)
(* [color, range].                                                         *)
(***************************************************************************)
UndefinedRange ==
    [start |-> [line |-> -1, character |-> -1], end |-> [line |-> -1, character |-> -1]]

CacheKeys(cache) == [i \in 1..Len(cache) |-> cache[i].uri]

CacheHas(cache, uri) == \E i \in 1..Len(cache) : cache[i].uri = uri

CacheGet(cache, uri) == cache[CHOOSE i \in 1..Len(cache) : cache[i].uri = uri].obj

\* CacheSet as delete colorTokenCache[uri] followed by the assignment.
CacheSet_MoveToEnd(cache, uri, obj) ==
    Append(SelectSeq(cache, LAMBDA e : e.uri # uri), [uri |-> uri, obj |-> obj])

\* colorTokenCache[uri] = obj
CacheSet(cache, uri, obj) ==
    IF CacheHas(cache, uri)
    THEN [i \in 1..Len(cache) |->
            IF cache[i].uri = uri THEN [uri |-> uri, obj |-> obj] ELSE cache[i]]
    ELSE Append(cache, [uri |-> uri, obj |-> obj])

\* CacheDelete as colorTokenCache = {}.
CacheDelete_Everything(cache, uri) == << >>

\* delete colorTokenCache[uri]
CacheDelete(cache, uri) == SelectSeq(cache, LAMBDA e : e.uri # uri)

\* !!obj[name]: an own entry, or a function inherited from Object.prototype
Truthy(obj, name) == name \in DOMAIN obj \/ name \in ObjectPrototypeKeys

\* obj[name].color and obj[name].range where obj[name] is truthy
EntryOf(obj, name) ==
    IF name \in DOMAIN obj THEN obj[name]
    ELSE [color |-> Undefined, range |-> UndefinedRange]

\* The while loop of updateColorTokenCache over the key matches ms[i..].
RECURSIVE KeyLoop(_, _, _, _, _)
KeyLoop(text, jsonObj, ms, i, colorTokenObj) ==
    IF i > Len(ms) THEN colorTokenObj
    ELSE LET variableName == ms[i].name
             value == JsonGet(jsonObj, variableName)
             entry == [color |-> value.chars,
                       range |-> RangeOf(text, ms[i].index, Len(variableName))]
         IN  KeyLoop(text, jsonObj, ms, i + 1,
                     IF isColorToken(value)
                     THEN (variableName :> entry) @@ colorTokenObj
                     ELSE colorTokenObj)

\* isColorLanguage without the check of cachedCSSLanguages.
isColor_LanguagesOnly(languages, cssLanguages, languageId) ==
    Includes(languages, languageId)

isColor(languages, cssLanguages, languageId) ==
    ~Includes(cssLanguages, languageId) /\ Includes(languages, languageId)

isCSS(cssLanguages, languageId) == Includes(cssLanguages, languageId)

\* updateColorTokenCache with a catch block that drops the document's entry.
updateColorTokenCache_ClearOnFailure(cache, languages, cssLanguages, uri, languageId, text) ==
    IF /\ isColor(languages, cssLanguages, languageId)
       /\ languageId \in {"json", "jsonc"}
    THEN IF JSONParse(text).ok
         THEN CacheSet(cache, uri,
                       KeyLoop(text, JSONParse(text).obj, jsonKeyPattern(text), 1, << >>))
         ELSE CacheDelete(cache, uri)
    ELSE cache

\* updateColorTokenCache after isColorLanguage has returned: the cache it
\* leaves, given the classification lists, the document and its text.
updateColorTokenCache(cache, languages, cssLanguages, uri, languageId, text) ==
    IF /\ isColor(languages, cssLanguages, languageId)
       /\ languageId \in {"json", "jsonc"}
       /\ JSONParse(text).ok
    THEN CacheSet(cache, uri,
                  KeyLoop(text, JSONParse(text).obj, jsonKeyPattern(text), 1, << >>))
    ELSE cache

(***************************************************************************)
(* findColorTokens after its settings and classification are known.  text  *)
(* is the text read at the start of the call, doc the text of the document *)
(* object when the ranges are computed.                                    *)
(***************************************************************************)
Token(doc, index, length, color) == [range |-> RangeOf(doc, index, length), color |-> color]

\* while ((m = regex.exec(text)) && numTokens < maxNumberOfColorTokens)
RECURSIVE HexLoop(_, _, _, _, _, _)
HexLoop(text, doc, ms, i, max, acc) ==
    IF i > Len(ms) \/ ~(acc.numTokens < max) THEN acc
    ELSE HexLoop(text, doc, ms, i + 1, max,
                 [numTokens |-> acc.numTokens + 1,
                  colors |-> Append(acc.colors,
                                    Token(doc, ms[i].index, ms[i].length,
                                          SubSeq(text, ms[i].index + 1,
                                                 ms[i].index + ms[i].length)))])

\* while ((rgbMatch = rgbRegex.exec(text)) && numTokens < maxNumberOfColorTokens)
RECURSIVE RgbLoop(_, _, _, _, _)
RgbLoop(doc, ms, i, max, acc) ==
    IF i > Len(ms) \/ ~(acc.numTokens < max) THEN acc
    ELSE RgbLoop(doc, ms, i + 1, max,
                 [numTokens |-> acc.numTokens + 1,
                  colors |-> Append(acc.colors,
                                    Token(doc, ms[i].index, ms[i].length,
                                          rgbToHexColor(ms[i])))])

\* Object.keys(colorTokenCache).find((uri) => !!colorTokenCache[uri][variableName]):
\* the index of the first such entry, 0 when there is none.
FindDocument(cache, variableName) ==
    LET hits == {i \in 1..Len(cache) : Truthy(cache[i].obj, variableName)}
    IN  IF hits = {} THEN 0 ELSE CHOOSE i \in hits : \A j \in hits : i <= j

RECURSIVE CssLoop(_, _, _, _, _)
CssLoop(cache, doc, ms, i, colors) ==
    IF i > Len(ms) THEN colors
    ELSE LET variableName == ms[i].cssVar
             k == FindDocument(cache, variableName)
         IN  CssLoop(cache, doc, ms, i + 1,
                     IF k # 0
                     THEN Append(colors,
                                 Token(doc, ms[i].index, ms[i].length,
                                       EntryOf(cache[k].obj, variableName).color))
                     ELSE colors)

\* ColorBranch with the hex loop comparing numTokens <= maxNumberOfColorTokens.
ColorBranch_HexLoopOffByOne(languageId, text, doc, max) ==
    LET hex == HexLoop(text, doc, colorTokenPattern(text), 1, max + 1,
                       [numTokens |-> 0, colors |-> << >>])
        all == IF languageId \in {"cpp", "c++"}
               THEN RgbLoop(doc, rgbArrayPattern(text), 1, max, hex)
               ELSE hex
    IN  [colors |-> all.colors,
         notifications |-> IF all.numTokens = max THEN 1 ELSE 0]

\* ColorBranch with the triplet loop counting from zero.
ColorBranch_TripletsOwnCount(languageId, text, doc, max) ==
    LET hex == HexLoop(text, doc, colorTokenPattern(text), 1, max,
                       [numTokens |-> 0, colors |-> << >>])
        rgb == RgbLoop(doc, rgbArrayPattern(text), 1, max,
                       [numTokens |-> 0, colors |-> hex.colors])
        all == IF languageId \in {"cpp", "c++"} THEN rgb ELSE hex
    IN  [colors |-> all.colors,
         notifications |-> IF all.numTokens = max THEN 1 ELSE 0]

\* ColorBranch with the notification decided on the count of the hex loop.
ColorBranch_NotifyOnHexCount(languageId, text, doc, max) ==
    LET hex == HexLoop(text, doc, colorTokenPattern(text), 1, max,
                       [numTokens |-> 0, colors |-> << >>])
        all == IF languageId \in {"cpp", "c++"}
               THEN RgbLoop(doc, rgbArrayPattern(text), 1, max, hex)
               ELSE hex
    IN  [colors |-> all.colors,
         notifications |-> IF hex.numTokens = max THEN 1 ELSE 0]

\* The branch for a color language: the hex scan, the triplet scan of a
\* C++ document, and the notification.
ColorBranch(languageId, text, doc, max) ==
    LET hex == HexLoop(text, doc, colorTokenPattern(text), 1, max,
                       [numTokens |-> 0, colors |-> << >>])
        all == IF languageId \in {"cpp", "c++"}
               THEN RgbLoop(doc, rgbArrayPattern(text), 1, max, hex)
               ELSE hex
    IN  [colors |-> all.colors,
         notifications |-> IF all.numTokens = max THEN 1 ELSE 0]

\* [colors, notifications]: the list returned and the number of
\* maxNumberOfColorTokens notifications sent.
findColorTokens(cache, languages, cssLanguages, languageId, text, doc, max) ==
    IF isColor(languages, cssLanguages, languageId)
    THEN ColorBranch(languageId, text, doc, max)
    ELSE IF isCSS(cssLanguages, languageId)
    THEN [colors |-> CssLoop(cache, doc, cssVariablePattern(text), 1, << >>),
          notifications |-> 0]
    ELSE [colors |-> << >>, notifications |-> 0]

\* onDocumentColor maps parseColor over the tokens; parseColor throws a
\* TypeError on a token whose color is undefined.
DocumentColorThrows(colors) == \E i \in 1..Len(colors) : colors[i].color = Undefined

\* onColorPresentation once the language is classified and the settings known.
colorPresentation(isColorLang, languageId, color, casing) ==
    IF isColorLang
    THEN IF languageId \in {"cpp", "c++"}
         THEN <<colorToRgbArray(color)>>
         ELSE <<stringifyColor(color, casing)>>
    ELSE << >>

\* onDefinition once isCSSLanguage has returned.
definition(cache, cssLanguages, languageId, doc, line) ==
    IF isCSS(cssLanguages, languageId)
    THEN LET ms == cssVariablePattern(LineText(doc, line))
         IN  IF ms # << >>
             THEN LET variableName == ms[1].cssVar
                      documentUris == SelectSeq(cache, LAMBDA e : Truthy(e.obj, variableName))
                  IN  [i \in 1..Len(documentUris) |->
                         [uri |-> documentUris[i].uri,
                          range |-> EntryOf(documentUris[i].obj, variableName).range]]
             ELSE << >>
    ELSE << >>

(***************************************************************************)
(* The server.                                                             *)
(***************************************************************************)
\* The number of handlers that may wait for a configuration response at once.
MaxPending == 2

\* The colors a color-presentation request carries, and the lines of a
\* definition request.
Opaque ==
    [red |-> Frac(255, 255), green |-> Frac(0, 255), blue |-> Frac(0, 255),
     alpha |-> Frac(255, 255)]

Translucent ==
    [red |-> Frac(171, 255), green |-> Frac(1, 2), blue |-> Frac(10, 255),
     alpha |-> Frac(1, 2)]

Colors == {Opaque, Translucent}

Lines == 0..2

VARIABLES
    initialized,                \* onInitialize has run
    hasConfigurationCapability,
    remoteConfig,               \* the client's jsonColorToken section
    cachedLanguages,
    cachedCSSLanguages,
    documents,                  \* the TextDocuments manager: uri -> [open, text]
    colorTokenCache,
    pending,                    \* the handlers awaiting a configuration response
    completed,                  \* the handler that returned in the last step
    call                        \* a conversion or pattern evaluated on its own

vars ==
    <<initialized, hasConfigurationCapability, remoteConfig, cachedLanguages,
      cachedCSSLanguages, documents, colorTokenCache, pending, completed, call>>

\* The state of the server, which the evaluation of a conversion or a
\* pattern on its own leaves alone.
serverVars ==
    <<initialized, hasConfigurationCapability, remoteConfig, cachedLanguages,
      cachedCSSLanguages, documents, colorTokenCache, pending, completed>>

NoColor ==
    [red |-> Frac(0, 1), green |-> Frac(0, 1), blue |-> Frac(0, 1), alpha |-> Frac(0, 1)]

\* A suspended handler: its operation, the await it is suspended at (pc),
\* the document object it holds (uri, languageId, doc: the object's text;
\* live: the object is still the one the manager updates), its locals, and
\* the lists its classification was computed from (languages, cssLanguages:
\* cachedLanguages and cachedCSSLanguages as they were when isColorLanguage
\* or isCSSLanguage returned to it).
Handler(op, pc, uri, text, doc, max, color, line) ==
    [op |-> op, pc |-> pc, uri |-> uri, languageId |-> LanguageOf(uri),
     text |-> text, doc |-> doc, live |-> TRUE, max |-> max, color |-> color,
     line |-> line, languages |-> Undefined, cssLanguages |-> Undefined]

NoneCompleted ==
    [op |-> "none", uri |-> "", languageId |-> "", text |-> "", doc |-> "", max |-> 0,
     color |-> NoColor, line |-> 0, colors |-> << >>, notifications |-> 0,
     labels |-> << >>, locations |-> << >>, error |-> FALSE,
     languages |-> Undefined, cssLanguages |-> Undefined]

\* What a handler h is recorded to have returned: its locals and the fields
\* given (error: the await of a configuration request threw).
Completed(h, fields) == fields @@ [f \in DOMAIN NoneCompleted |->
                                     IF f \in DOMAIN h THEN h[f] ELSE NoneCompleted[f]]

\* No conversion or pattern is under evaluation.
NoCall == [fn |-> "none"]

\* The module-level state of the server after construction.
ServerInit ==
    /\ initialized = FALSE
    /\ hasConfigurationCapability = FALSE
    /\ remoteConfig \in RemoteConfigs
    /\ cachedLanguages = Undefined
    /\ cachedCSSLanguages = Undefined
    /\ documents = [u \in Uris |-> [open |-> FALSE, text |-> ""]]
    /\ colorTokenCache = << >>
    /\ pending = << >>
    /\ completed = NoneCompleted

Init == ServerInit /\ call = NoCall

\* The connection writes what the handler returned to the client; nothing
\* else runs between a handler's return and this.
Deliver ==
    /\ completed # NoneCompleted
    /\ completed' = NoneCompleted
    /\ UNCHANGED <<initialized, hasConfigurationCapability, remoteConfig,
                   cachedLanguages, cachedCSSLanguages, documents, colorTokenCache,
                   pending>>
    /\ UNCHANGED call

Idle == completed = NoneCompleted

\* connection.onInitialize
Initialize(capability) ==
    /\ Idle
    /\ ~initialized
    /\ initialized' = TRUE
    /\ hasConfigurationCapability' = capability
    /\ completed' = NoneCompleted
    /\ UNCHANGED <<remoteConfig, cachedLanguages, cachedCSSLanguages, documents,
                   colorTokenCache, pending>>
    /\ UNCHANGED call

\* The user edits the settings on the client.
ChangeConfiguration(config) ==
    /\ Idle
    /\ initialized
    /\ config # remoteConfig
    /\ remoteConfig' = config
    /\ completed' = NoneCompleted
    /\ UNCHANGED <<initialized, hasConfigurationCapability, cachedLanguages,
                   cachedCSSLanguages, documents, colorTokenCache, pending>>
    /\ UNCHANGED call

ListsCached == cachedLanguages # Undefined /\ cachedCSSLanguages # Undefined

Remove(seq, i) == SubSeq(seq, 1, i - 1) \o SubSeq(seq, i + 1, Len(seq))

\* documents.onDidChangeContent -> updateColorTokenCache(change.document), up
\* to its first suspension or its end; pend is the list of waiting handlers.
ChangeContent(uri, text, pend) ==
    LET h == Handler("change", "upd_isColor", uri, text, text, 0, NoColor, 0)
    IN  IF ListsCached
        THEN /\ colorTokenCache' =
                  updateColorTokenCache(colorTokenCache, cachedLanguages,
                                        cachedCSSLanguages, uri, h.languageId, Text(text))
             /\ pending' = pend
             /\ completed' = Completed(h, [languages |-> cachedLanguages,
                                           cssLanguages |-> cachedCSSLanguages])
        ELSE /\ Len(pend) < MaxPending
             /\ pending' = Append(pend, h)
             /\ completed' = NoneCompleted
             /\ UNCHANGED colorTokenCache

\* textDocument/didOpen: the manager creates the document and fires
\* onDidChangeContent.
DidOpen(uri, text) ==
    /\ Idle
    /\ initialized
    /\ ~documents[uri].open
    /\ documents' = [documents EXCEPT ![uri] = [open |-> TRUE, text |-> text]]
    /\ ChangeContent(uri, text, pending)
    /\ UNCHANGED <<initialized, hasConfigurationCapability, remoteConfig,
                   cachedLanguages, cachedCSSLanguages>>
    /\ UNCHANGED call

\* textDocument/didChange: the manager updates the document object in place
\* (every handler holding it sees the new text) and fires onDidChangeContent.
DidChange(uri, text) ==
    /\ Idle
    /\ initialized
    /\ documents[uri].open
    /\ documents' = [documents EXCEPT ![uri].text = text]
    /\ ChangeContent(uri, text,
                     [i \in 1..Len(pending) |->
                        IF pending[i].uri = uri /\ pending[i].live
                        THEN [pending[i] EXCEPT !.doc = text]
                        ELSE pending[i]])
    /\ UNCHANGED <<initialized, hasConfigurationCapability, remoteConfig,
                   cachedLanguages, cachedCSSLanguages>>
    /\ UNCHANGED call

\* documents.onDidClose.  The handlers that hold the document object keep it.
DidClose(uri) ==
    /\ Idle
    /\ initialized
    /\ documents[uri].open
    /\ documents' = [documents EXCEPT ![uri] = [open |-> FALSE, text |-> ""]]
    /\ colorTokenCache' = CacheDelete(colorTokenCache, uri)
    /\ pending' = [i \in 1..Len(pending) |->
                     IF pending[i].uri = uri
                     THEN [pending[i] EXCEPT !.live = FALSE]
                     ELSE pending[i]]
    /\ completed' = NoneCompleted
    /\ UNCHANGED <<initialized, hasConfigurationCapability, remoteConfig,
                   cachedLanguages, cachedCSSLanguages>>
    /\ UNCHANGED call

\* A request for a document the manager does not hold returns at once.
NotOpen(op, uri, color, line) ==
    /\ completed' = Completed(Handler(op, "", uri, "", "", 0, color, line),
                              [error |-> FALSE])
    /\ UNCHANGED pending

\* findColorTokens from isColorLanguage on, when it does not have to wait.
FindClassified(h, languages, cssLanguages, pend) ==
    LET r == findColorTokens(colorTokenCache, languages, cssLanguages, h.languageId,
                             Text(h.text), Text(h.doc), h.max)
    IN  /\ pending' = pend
        /\ completed' = Completed(h, [colors |-> r.colors,
                                      notifications |-> r.notifications,
                                      languages |-> languages,
                                      cssLanguages |-> cssLanguages])

\* findColorTokens after getGlobalSettings has answered.
FindWithSettings(h, pend) ==
    IF ListsCached
    THEN FindClassified(h, cachedLanguages, cachedCSSLanguages, pend)
    ELSE /\ Len(pend) < MaxPending
         /\ pending' = Append(pend, [h EXCEPT !.pc = "find_isColor"])
         /\ completed' = NoneCompleted

\* connection.onDocumentColor -> findColorTokens
DocumentColor(uri) ==
    /\ Idle
    /\ initialized
    /\ IF ~documents[uri].open
       THEN NotOpen("documentColor", uri, NoColor, 0)
       ELSE LET text == documents[uri].text
                h == Handler("documentColor", "find_settings", uri, text, text, 0,
                             NoColor, 0)
            IN  IF hasConfigurationCapability
                THEN /\ Len(pending) < MaxPending
                     /\ pending' = Append(pending, h)
                     /\ completed' = NoneCompleted
                ELSE FindWithSettings(
                         [h EXCEPT !.max = defaultSettings.maxNumberOfColorTokens],
                         pending)
    /\ UNCHANGED <<initialized, hasConfigurationCapability, remoteConfig,
                   cachedLanguages, cachedCSSLanguages, documents, colorTokenCache>>
    /\ UNCHANGED call

\* onColorPresentation from isColorLanguage on, when it does not have to wait.
PresentClassified(h, languages, cssLanguages, pend) ==
    IF isColor(languages, cssLanguages, h.languageId) /\ hasConfigurationCapability
    THEN /\ Len(pend) < MaxPending
         /\ pending' = Append(pend, [h EXCEPT !.pc = "pres_settings",
                                              !.languages = languages,
                                              !.cssLanguages = cssLanguages])
         /\ completed' = NoneCompleted
    ELSE /\ pending' = pend
         /\ completed' =
              Completed(h, [labels |->
                              colorPresentation(
                                  isColor(languages, cssLanguages, h.languageId),
                                  h.languageId, h.color,
                                  defaultSettings.colorTokenCasing),
                            languages |-> languages,
                            cssLanguages |-> cssLanguages])

\* connection.onColorPresentation
ColorPresentation(uri, color) ==
    /\ Idle
    /\ initialized
    /\ IF ~documents[uri].open
       THEN NotOpen("colorPresentation", uri, color, 0)
       ELSE LET text == documents[uri].text
                h == Handler("colorPresentation", "pres_isColor", uri, text, text, 0,
                             color, 0)
            IN  IF ListsCached
                THEN PresentClassified(h, cachedLanguages, cachedCSSLanguages, pending)
                ELSE /\ Len(pending) < MaxPending
                     /\ pending' = Append(pending, h)
                     /\ completed' = NoneCompleted
    /\ UNCHANGED <<initialized, hasConfigurationCapability, remoteConfig,
                   cachedLanguages, cachedCSSLanguages, documents, colorTokenCache>>
    /\ UNCHANGED call

\* onDefinition after isCSSLanguage has returned.
DefineClassified(h, cssLanguages, pend) ==
    /\ pending' = pend
    /\ completed' =
         Completed(h, [locations |->
                         definition(colorTokenCache, cssLanguages, h.languageId,
                                    Text(h.doc), h.line),
                       cssLanguages |-> cssLanguages])

\* connection.onDefinition
Definition(uri, line) ==
    /\ Idle
    /\ initialized
    /\ IF ~documents[uri].open
       THEN NotOpen("definition", uri, NoColor, line)
       ELSE LET text == documents[uri].text
                h == Handler("definition", "def_isCSS", uri, text, text, 0, NoColor, line)
            IN  IF cachedCSSLanguages # Undefined
                THEN DefineClassified(h, cachedCSSLanguages, pending)
                ELSE /\ Len(pending) < MaxPending
                     /\ pending' = Append(pending, h)
                     /\ completed' = NoneCompleted
    /\ UNCHANGED <<initialized, hasConfigurationCapability, remoteConfig,
                   cachedLanguages, cachedCSSLanguages, documents, colorTokenCache>>
    /\ UNCHANGED call

(***************************************************************************)
(* The client answers a workspace/configuration request with the section   *)
(* as it is then, and the handler that awaited it runs on.                 *)
(***************************************************************************)
\* updateColorTokenCache resumes in isColorLanguage (lines 154-156).
ResumeUpdate(i) ==
    /\ Idle
    /\ i \in 1..Len(pending)
    /\ pending[i].pc = "upd_isColor"
    /\ cachedLanguages' = remoteConfig.languages
    /\ cachedCSSLanguages' = remoteConfig.cssLanguages
    /\ colorTokenCache' =
         updateColorTokenCache(colorTokenCache, remoteConfig.languages,
                               remoteConfig.cssLanguages, pending[i].uri,
                               pending[i].languageId, Text(pending[i].doc))
    /\ pending' = Remove(pending, i)
    /\ completed' = Completed(pending[i], [languages |-> remoteConfig.languages,
                                            cssLanguages |-> remoteConfig.cssLanguages])
    /\ UNCHANGED <<initialized, hasConfigurationCapability, remoteConfig, documents>>
    /\ UNCHANGED call

\* findColorTokens resumes after getGlobalSettings (line 248).
ResumeFindSettings(i) ==
    /\ Idle
    /\ i \in 1..Len(pending)
    /\ pending[i].pc = "find_settings"
    /\ FindWithSettings([pending[i] EXCEPT !.max = remoteConfig.maxNumberOfColorTokens],
                        Remove(pending, i))
    /\ UNCHANGED <<initialized, hasConfigurationCapability, remoteConfig,
                   cachedLanguages, cachedCSSLanguages, documents, colorTokenCache>>
    /\ UNCHANGED call

\* findColorTokens resumes in isColorLanguage (line 252).
ResumeFindIsColor(i) ==
    /\ Idle
    /\ i \in 1..Len(pending)
    /\ pending[i].pc = "find_isColor"
    /\ cachedLanguages' = remoteConfig.languages
    /\ cachedCSSLanguages' = remoteConfig.cssLanguages
    /\ FindClassified(pending[i], remoteConfig.languages, remoteConfig.cssLanguages,
                      Remove(pending, i))
    /\ UNCHANGED <<initialized, hasConfigurationCapability, remoteConfig, documents,
                   colorTokenCache>>
    /\ UNCHANGED call

\* onColorPresentation resumes in isColorLanguage (line 441).
ResumePresentIsColor(i) ==
    /\ Idle
    /\ i \in 1..Len(pending)
    /\ pending[i].pc = "pres_isColor"
    /\ cachedLanguages' = remoteConfig.languages
    /\ cachedCSSLanguages' = remoteConfig.cssLanguages
    /\ PresentClassified(pending[i], remoteConfig.languages, remoteConfig.cssLanguages,
                         Remove(pending, i))
    /\ UNCHANGED <<initialized, hasConfigurationCapability, remoteConfig, documents,
                   colorTokenCache>>
    /\ UNCHANGED call

\* onColorPresentation resumes after getGlobalSettings (line 442).
ResumePresentSettings(i) ==
    /\ Idle
    /\ i \in 1..Len(pending)
    /\ pending[i].pc = "pres_settings"
    /\ pending' = Remove(pending, i)
    /\ completed' =
         Completed(pending[i],
                   [labels |-> colorPresentation(TRUE, pending[i].languageId,
                                                 pending[i].color,
                                                 remoteConfig.colorTokenCasing)])
    /\ UNCHANGED <<initialized, hasConfigurationCapability, remoteConfig,
                   cachedLanguages, cachedCSSLanguages, documents, colorTokenCache>>
    /\ UNCHANGED call

\* onDefinition resumes in isCSSLanguage (lines 166-167).
ResumeDefinition(i) ==
    /\ Idle
    /\ i \in 1..Len(pending)
    /\ pending[i].pc = "def_isCSS"
    /\ cachedCSSLanguages' = remoteConfig.cssLanguages
    /\ DefineClassified(pending[i], remoteConfig.cssLanguages, Remove(pending, i))
    /\ UNCHANGED <<initialized, hasConfigurationCapability, remoteConfig,
                   cachedLanguages, documents, colorTokenCache>>
    /\ UNCHANGED call

\* The client answers with an error: the await throws and the handler ends.
RejectConfiguration(i) ==
    /\ Idle
    /\ i \in 1..Len(pending)
    /\ pending' = Remove(pending, i)
    /\ completed' = Completed(pending[i], [error |-> TRUE])
    /\ UNCHANGED <<initialized, hasConfigurationCapability, remoteConfig,
                   cachedLanguages, cachedCSSLanguages, documents, colorTokenCache>>
    /\ UNCHANGED call

\* The document events of a client that holds the documents uris, the
\* settings the user edits, and the answers to updateColorTokenCache.
Lifecycle(uris) ==
    \/ \E capability \in BOOLEAN : Initialize(capability)
    \/ \E config \in RemoteConfigs : ChangeConfiguration(config)
    \/ \E uri \in uris : \E text \in TextsOf(uri) : DidOpen(uri, text)
    \/ \E uri \in uris : \E text \in TextsOf(uri) : DidChange(uri, text)
    \/ \E uri \in uris : DidClose(uri)
    \/ \E i \in 1..MaxPending : ResumeUpdate(i)
    \/ \E i \in 1..MaxPending : RejectConfiguration(i)
    \/ Deliver

\* textDocument/documentColor requests for the documents uris.
Detection(uris) ==
    \/ \E uri \in uris : DocumentColor(uri)
    \/ \E i \in 1..MaxPending : ResumeFindSettings(i)
    \/ \E i \in 1..MaxPending : ResumeFindIsColor(i)

\* textDocument/colorPresentation requests.
Presentation(uris, colors) ==
    \/ \E uri \in uris : \E color \in colors : ColorPresentation(uri, color)
    \/ \E i \in 1..MaxPending : ResumePresentIsColor(i)
    \/ \E i \in 1..MaxPending : ResumePresentSettings(i)

\* textDocument/definition requests.
Definitions(uris, lines) ==
    \/ \E uri \in uris : \E line \in lines : Definition(uri, line)
    \/ \E i \in 1..MaxPending : ResumeDefinition(i)

\* The whole server.
Next ==
    \/ Lifecycle(Uris)
    \/ Detection(Uris)
    \/ Presentation(Uris, Colors)
    \/ Definitions(Uris, Lines)

Spec == Init /\ [][Next]_vars

(***************************************************************************)
(* The server with a client that holds some of the documents and sends     *)
(* some of the requests.                                                   *)
(***************************************************************************)
\* One JSON document, and definition requests on it.
NextCache == Lifecycle({"a.json"}) \/ Definitions({"a.json"}, {0})

SpecCache == Init /\ [][NextCache]_vars

\* One C++ document and its documentColor requests.
NextDetect == Lifecycle({"m.cpp"}) \/ Detection({"m.cpp"})

SpecDetect == Init /\ [][NextDetect]_vars

\* One JSON document with every request on it.
NextClassify ==
    \/ Lifecycle({"b.json"})
    \/ Detection({"b.json"})
    \/ Presentation({"b.json"}, {Translucent})
    \/ Definitions({"b.json"}, {0})

SpecClassify == Init /\ [][NextClassify]_vars

\* A JSON and a C++ document and their colorPresentation requests.
NextPresent ==
    \/ Lifecycle({"b.json", "m.cpp"})
    \/ Presentation({"b.json", "m.cpp"}, Colors)

SpecPresent == Init /\ [][NextPresent]_vars

\* A JSON document, a CSS document and documentColor requests on the latter.
NextResolve == Lifecycle({"a.json", "s.css"}) \/ Detection({"s.css"})

SpecResolve == Init /\ [][NextResolve]_vars

\* Two JSON documents, a CSS document and definition requests on the latter.
NextDefine == Lifecycle({"a.json", "b.json", "s.css"}) \/ Definitions({"s.css"}, {0, 1})

SpecDefine == Init /\ [][NextDefine]_vars

\* A C++ and a JSON document with the same text of hex tokens and triplets,
\* and their documentColor requests.
NextOrder == Lifecycle({"t.cpp", "t.json"}) \/ Detection({"t.cpp", "t.json"})

SpecOrder == Init /\ [][NextOrder]_vars

\* Two JSON documents that define the same variable and a CSS document that
\* refers to it, with a client that supports configuration requests, keeps
\* its settings and sends every kind of request.
TextsShared(uri) ==
    CASE uri = "a.json" -> {"J1", "J2"}
      [] uri = "b.json" -> {"J4"}
      [] uri = "s.css"  -> {"S1"}

InitShared == Init /\ remoteConfig = ConfigA

NextShared ==
    \/ Initialize(TRUE)
    \/ \E uri \in {"a.json", "b.json", "s.css"} :
          \E text \in TextsShared(uri) : DidOpen(uri, text)
    \/ \E text \in TextsShared("a.json") : DidChange("a.json", text)
    \/ \E uri \in {"a.json", "b.json"} : DidClose(uri)
    \/ \E i \in 1..MaxPending : ResumeUpdate(i)
    \/ DocumentColor("s.css")
    \/ \E i \in 1..MaxPending : ResumeFindSettings(i)
    \/ \E i \in 1..MaxPending : ResumeFindIsColor(i)
    \/ ColorPresentation("b.json", Opaque)
    \/ \E i \in 1..MaxPending : ResumePresentIsColor(i)
    \/ \E i \in 1..MaxPending : ResumePresentSettings(i)
    \/ Definition("s.css", 1)
    \/ \E i \in 1..MaxPending : ResumeDefinition(i)
    \/ Deliver

SpecShared == InitShared /\ [][NextShared]_vars

\* One JSON document with a string value that holds a hex literal inside
\* longer text.
NextProse == Lifecycle({"n.json"})

SpecProse == Init /\ [][NextProse]_vars

(***************************************************************************)
(* The conversions and patterns evaluated on their own: call holds the     *)
(* arguments, and then the results.                                        *)
(***************************************************************************)
\* The largest value of a channel byte.
ChannelMax == 255

\* Channel bytes with a one-digit code and with letters in the code, and
\* alpha bytes below and at 1.0.
SampleBytes == {9, 171}

SampleAlphas == {127, ChannelMax}

\* The color with the channel bytes r, g, b, a (a = ChannelMax: alpha 1.0).
ColorOf(r, g, b, a) ==
    [red |-> Frac(r, ChannelMax), green |-> Frac(g, ChannelMax),
     blue |-> Frac(b, ChannelMax), alpha |-> Frac(a, ChannelMax)]

\* Colors whose channels are multiples of 1/255: each channel in turn takes
\* every byte while the others take the sample bytes.
ByteColors ==
    {ColorOf(x, y, z, w) : x \in 0..ChannelMax, y \in SampleBytes, z \in SampleBytes,
                           w \in SampleAlphas}
    \cup {ColorOf(y, x, z, w) : x \in 0..ChannelMax, y \in SampleBytes,
                                z \in SampleBytes, w \in SampleAlphas}
    \cup {ColorOf(y, z, x, w) : x \in 0..ChannelMax, y \in SampleBytes,
                                z \in SampleBytes, w \in SampleAlphas}
    \cup {ColorOf(y, z, w, x) : x \in 0..ChannelMax, y \in SampleBytes,
                                z \in SampleBytes, w \in SampleBytes}

Casings == {"Uppercase", "Lowercase"}

\* The server is as constructed and stays so.
QuietServer == ServerInit /\ remoteConfig = ConfigA

InitRoundTrip ==
    /\ QuietServer
    /\ call \in {[fn |-> "color", color |-> c, casing |-> k] :
                    c \in ByteColors, k \in Casings}

\* stringifyColor(color, casing)
Encode ==
    /\ call.fn = "color"
    /\ call' = [fn |-> "stringifyColor", color |-> call.color, casing |-> call.casing,
                text |-> stringifyColor(call.color, call.casing)]
    /\ UNCHANGED serverVars

\* parseColor of the text stringifyColor returned, or of a literal
Decode ==
    /\ call.fn \in {"stringifyColor", "literal"}
    /\ call' = [fn |-> "parseColor", result |-> parseColor(call.text)] @@ call
    /\ UNCHANGED serverVars

NextRoundTrip == Encode \/ Decode

SpecRoundTrip == InitRoundTrip /\ [][NextRoundTrip]_vars

\* Hex digits of each kind.
SampleDigits == {"0", "9", "a", "F"}

\* The 3-digit literals, and 4-digit literals whose last two digits are any.
ShortLiterals ==
    {<<"#", x, y, z>> : x \in HexDigits, y \in HexDigits, z \in HexDigits}
    \cup {<<"#", x, y, z, w>> : x \in SampleDigits, y \in SampleDigits,
                                 z \in HexDigits, w \in HexDigits}

InitShortHex ==
    /\ QuietServer
    /\ call \in {[fn |-> "literal", text |-> t] : t \in ShortLiterals}

NextShortHex == Decode

SpecShortHex == InitShortHex /\ [][NextShortHex]_vars

\* The largest number written as a component of a triplet.
MaxComponent == 300

\* The components one position of a triplet takes while the others take
\* the few of FewComponents: the canonical integers of 0..MaxComponent and
\* some that are negative, too large, or written with leading zeros.
ManyComponents ==
    {NumberToString(n, 10) : n \in 0..MaxComponent}
        \cup {<<"-", "1">>, <<"1", "0", "0", "0">>, <<"0", "2", "5">>, <<"0", "0">>,
              <<"0", "0", "7">>, <<"0", "2", "5", "6">>}

FewComponents == {<<"0">>, <<"2", "5", "5">>, <<"2", "5", "6">>, <<"0", "2", "5">>}

\* The whitespace before and after each integer.
Spacings == {<<<< >>, << >>>>, <<<<" ">>, <<" ">>>>, <<<<"\t", " ">>, <<"\n">>>>}

\* The text { r , g , b } with the spacing sp around each integer.
Braced(r, g, b, sp) ==
    <<"{">> \o sp[1] \o r \o sp[2] \o <<",">> \o sp[1] \o g \o sp[2] \o <<",">>
            \o sp[1] \o b \o sp[2] \o <<"}">>

TripletCall(r, g, b, sp) ==
    [fn |-> "text", r |-> r, g |-> g, b |-> b, text |-> Braced(r, g, b, sp)]

InitTriplet ==
    /\ QuietServer
    /\ call \in {TripletCall(x, y, z, sp) :
                     x \in ManyComponents, y \in FewComponents, z \in FewComponents,
                     sp \in Spacings}
               \cup {TripletCall(y, x, z, sp) :
                     x \in ManyComponents, y \in FewComponents, z \in FewComponents,
                     sp \in Spacings}
               \cup {TripletCall(y, z, x, sp) :
                     x \in ManyComponents, y \in FewComponents, z \in FewComponents,
                     sp \in Spacings}

\* new RegExp(rgbArrayPattern): every match of the exec loop over the text
Match ==
    /\ call.fn = "text"
    /\ call' = [fn |-> "rgbArrayPattern", result |-> rgbArrayPattern(call.text)] @@ call
    /\ UNCHANGED serverVars

NextTriplet == Match

SpecTriplet == InitTriplet /\ [][NextTriplet]_vars

(***************************************************************************)
(* The claims.                                                             *)
(***************************************************************************)
\* A document's entry of the cache: whether there is one, and its sub-map.
SubMap(cache, uri) ==
    IF CacheHas(cache, uri)
    THEN [present |-> TRUE, obj |-> CacheGet(cache, uri)]
    ELSE [present |-> FALSE, obj |-> << >>]

\* The change handler that returned in the last step read a text that is
\* not JSON.
ChangeOfMalformed(h) == h.op = "change" /\ ~h.error /\ ~JSONParse(Text(h.doc)).ok

\* C1: the step in which the handler of a change event returns, having read
\* a text that JSON.parse rejects, leaves the document's entry of the cache
\* as it was: the same sub-map if it had one, still none if it had none.
C1_StaleOnParseFailure ==
    [][ChangeOfMalformed(completed') =>
          SubMap(colorTokenCache', completed'.uri) =
          SubMap(colorTokenCache, completed'.uri)]_vars

\* C1's case: a malformed version of a.json has been handled and the entry
\* of its earlier version is still there with its variables.
C1_Witness ==
    /\ hasConfigurationCapability
    /\ ChangeOfMalformed(completed)
    /\ SubMap(colorTokenCache, completed.uri).present
    /\ NamePrimary \in DOMAIN SubMap(colorTokenCache, completed.uri).obj

\* A change handler for the document is still suspended.
ChangeSuspended(uri) ==
    \E i \in 1..Len(pending) : pending[i].op = "change" /\ pending[i].uri = uri

\* C2: with a client that answers configuration requests, whenever a
\* document is closed and no change handler for it is still suspended, the
\* cache has no entry for it.
C2_NoEntryAfterClose ==
    hasConfigurationCapability =>
        \A uri \in Uris :
            (~documents[uri].open /\ ~ChangeSuspended(uri)) =>
                ~CacheHas(colorTokenCache, uri)

\* A documentColor request on an open document has returned.
DetectReturned ==
    completed.op = "documentColor" /\ ~completed.error /\ completed.text # ""

\* ... for a color-language document with more hex tokens than the cap.
OverCap ==
    /\ DetectReturned
    /\ isColor(cachedLanguages, cachedCSSLanguages, completed.languageId)
    /\ Len(colorTokenPattern(Text(completed.text))) > completed.max

\* C3: findColorTokens on a color-language document holding more hex tokens
\* than maxNumberOfColorTokens returns exactly that many tokens, the first
\* hex matches in text order (their text and, the document being unchanged,
\* their ranges), and sends the notification exactly once.
C3_CapEnforced ==
    OverCap =>
        LET text == Text(completed.text)
            ms == colorTokenPattern(text)
        IN  /\ Len(completed.colors) = completed.max
            /\ \A i \in 1..completed.max :
                   /\ completed.colors[i].color =
                        SubSeq(text, ms[i].index + 1, ms[i].index + ms[i].length)
                   /\ completed.doc = completed.text =>
                        completed.colors[i].range =
                          [start |-> positionAt(text, ms[i].index),
                           end |-> positionAt(text, ms[i].index + ms[i].length)]
            /\ completed.notifications = 1

\* C3's case: m.cpp holds three hex tokens and the cap is 1; the one token
\* returned is #fff at characters 12..16 of line 0.
C3_Witness ==
    /\ OverCap
    /\ completed.max = 1
    /\ completed.colors =
         <<[color |-> <<"#", "f", "f", "f">>,
            range |-> [start |-> [line |-> 0, character |-> 12],
                       end |-> [line |-> 0, character |-> 16]]]>>
    /\ completed.notifications = 1

\* C4: the list a documentColor request returns never has more than
\* maxNumberOfColorTokens tokens, whatever the document's classification and
\* the cache.
C4_DetectionCapped ==
    (completed.op = "documentColor" /\ ~completed.error) =>
        Len(completed.colors) <= completed.max

\* Some cached document has an entry of its own for the name.
Defines(name) ==
    \E i \in 1..Len(colorTokenCache) : name \in DOMAIN colorTokenCache[i].obj

\* The entry for the name in the first cached document that has one.
FirstDefinition(name) ==
    LET i == CHOOSE k \in 1..Len(colorTokenCache) :
                 /\ name \in DOMAIN colorTokenCache[k].obj
                 /\ \A j \in 1..(k - 1) : name \notin DOMAIN colorTokenCache[j].obj
    IN  colorTokenCache[i].obj[name]

\* A documentColor request has returned for a reference-language document
\* that did not change while the request waited (the client is one that
\* answers configuration requests).
ReferenceDetectReturned ==
    /\ hasConfigurationCapability
    /\ DetectReturned
    /\ ~isColor(cachedLanguages, cachedCSSLanguages, completed.languageId)
    /\ isCSS(cachedCSSLanguages, completed.languageId)
    /\ completed.doc = completed.text

\* C5: findColorTokens on a reference-language document returns, in text
\* order, one token for each var(--name) occurrence whose name a cached
\* document defines and nothing else; the token has the cached color of the
\* name and the range of the occurrence.
C5_ReferencesResolved ==
    ReferenceDetectReturned =>
        LET text == Text(completed.text)
            refs == SelectSeq(cssVariablePattern(text), LAMBDA m : Defines(m.cssVar))
        IN  completed.colors =
              [i \in 1..Len(refs) |->
                 [color |-> FirstDefinition(refs[i].cssVar).color,
                  range |-> [start |-> positionAt(text, refs[i].index),
                             end |-> positionAt(text, refs[i].index + refs[i].length)]]]

\* A definition request on an open document has returned.
DefinitionReturned ==
    completed.op = "definition" /\ ~completed.error /\ completed.text # ""

\* ... to a client that answers configuration requests.
DefinitionAnswered == hasConfigurationCapability /\ DefinitionReturned

\* C6: onDefinition on a reference-language document takes the first
\* var(--name) of the position's line and returns one (uri, range) pair for
\* every cached document that defines the name, in cache order, and no other
\* pair; the range is the cached range of the key, as long as the name and
\* on one line.  For any other document, or a line without a reference, it
\* returns nothing.
C6_DefinitionLookup ==
    DefinitionAnswered =>
        LET ms == cssVariablePattern(LineText(Text(completed.doc), completed.line))
        IN  IF isCSS(cachedCSSLanguages, completed.languageId) /\ ms # << >>
            THEN LET name == ms[1].cssVar
                     defining == SelectSeq(colorTokenCache,
                                           LAMBDA e : name \in DOMAIN e.obj)
                 IN  /\ completed.locations =
                          [i \in 1..Len(defining) |->
                             [uri |-> defining[i].uri,
                              range |-> defining[i].obj[name].range]]
                     /\ \A i \in 1..Len(completed.locations) :
                            LET r == completed.locations[i].range
                            IN  /\ r.start.line = r.end.line
                                /\ r.end.character - r.start.character = Len(name)
            ELSE completed.locations = << >>

\* The handler h returned for an open document whose language is in both
\* of the lists its classification was computed from.
ReturnedAmbiguous(h) ==
    /\ h.op # "none" /\ ~h.error /\ h.text # "" /\ h.doc = h.text
    /\ Includes(h.languages, h.languageId)
    /\ Includes(h.cssLanguages, h.languageId)

\* The range of the i-th var(--name) occurrence of the text.
ReferenceRange(text, i) ==
    LET m == cssVariablePattern(text)[i]
    IN  [start |-> positionAt(text, m.index), end |-> positionAt(text, m.index + m.length)]

\* C7: a handler whose document's language is in both lists when it is
\* classified treats the document as a reference document: the step in
\* which it returns leaves the cache as it was; documentColor returns a
\* token at each var(--name) occurrence a cached document defines and
\* nowhere else (no hex token) and sends no notification; colorPresentation
\* returns no label.  An onDefinition handler, which calls isCSSLanguage
\* only, finds the cached definitions of its line's first reference when
\* the language is in the css list it saw and in the stored languages.
C7_ReferenceWins ==
    [][/\ ReturnedAmbiguous(completed') =>
            LET h == completed'
                text == Text(h.text)
                refs == cssVariablePattern(text)
            IN  /\ colorTokenCache' = colorTokenCache
                /\ h.op = "documentColor" =>
                      /\ h.notifications = 0
                      /\ \A i \in 1..Len(h.colors) :
                            \E k \in 1..Len(refs) :
                                h.colors[i].range = ReferenceRange(text, k)
                      /\ \A k \in 1..Len(refs) :
                            (\E j \in 1..Len(colorTokenCache) :
                                 refs[k].cssVar \in DOMAIN colorTokenCache[j].obj) =>
                            \E i \in 1..Len(h.colors) :
                                h.colors[i].range = ReferenceRange(text, k)
                /\ h.op = "colorPresentation" => h.labels = << >>
       /\ (/\ completed'.op = "definition" /\ ~completed'.error /\ completed'.text # ""
           /\ Includes(completed'.cssLanguages, completed'.languageId)
           /\ Includes(cachedLanguages', completed'.languageId)) =>
            LET h == completed'
                ms == cssVariablePattern(LineText(Text(h.doc), h.line))
            IN  \A j \in 1..Len(colorTokenCache) :
                    (ms # << >> /\ ms[1].cssVar \in DOMAIN colorTokenCache[j].obj) =>
                    \E i \in 1..Len(h.locations) :
                        h.locations[i].uri = colorTokenCache[j].uri]_vars

\* C7's case: json is in both stored lists, b.json was cached before they
\* were stored, and documentColor on b.json returns the token of its
\* var(--accent) reference and not its hex token.
C7_Witness ==
    /\ hasConfigurationCapability
    /\ ReturnedAmbiguous(completed)
    /\ completed.op = "documentColor"
    /\ completed.colors =
         <<[color |-> <<"#", "a", "b", "c">>,
            range |-> [start |-> [line |-> 0, character |-> 28],
                       end |-> [line |-> 0, character |-> 41]]]>>

\* C8: with a client that answers configuration requests, once
\* cachedLanguages (cachedCSSLanguages) holds a list, no step changes it.
C8_ListsFixed ==
    [][hasConfigurationCapability =>
          /\ cachedLanguages # Undefined => cachedLanguages' = cachedLanguages
          /\ cachedCSSLanguages # Undefined =>
               cachedCSSLanguages' = cachedCSSLanguages]_vars

\* C9: while the client does not support workspace/configuration, no
\* configuration request is outstanding, the stored classification lists
\* are those of defaultSettings, and a handler that returns used the cap of
\* defaultSettings.
C9_DefaultsWithoutCapability ==
    (initialized /\ ~hasConfigurationCapability) =>
        /\ pending = << >>
        /\ cachedLanguages \in {Undefined, defaultSettings.languages}
        /\ cachedCSSLanguages \in {Undefined, defaultSettings.cssLanguages}
        /\ DetectReturned => completed.max = defaultSettings.maxNumberOfColorTokens

\* A colorPresentation request on an open document has returned.
PresentationReturned ==
    completed.op = "colorPresentation" /\ ~completed.error /\ completed.text # ""

\* The {r,g,b} form of the two colors of the model.
ExpectedTriplet(color) ==
    IF color = Opaque
    THEN <<"{", "2", "5", "5", ",", "0", ",", "0", "}">>
    ELSE <<"{", "1", "7", "1", ",", "1", "2", "7", ",", "1", "0", "}">>

\* Their hex form in either casing.
ExpectedHex(color, casing) ==
    CASE color = Opaque /\ casing = "Uppercase" -> <<"#", "F", "F", "0", "0", "0", "0">>
      [] color = Opaque /\ casing = "Lowercase" -> <<"#", "f", "f", "0", "0", "0", "0">>
      [] color = Translucent /\ casing = "Uppercase" ->
           <<"#", "A", "B", "7", "F", "0", "A", "7", "F">>
      [] color = Translucent /\ casing = "Lowercase" ->
           <<"#", "a", "b", "7", "f", "0", "a", "7", "f">>

\* The casing setting when the handler returns: the client's, or the
\* default when the client does not support workspace/configuration.
ConfiguredCasing ==
    IF hasConfigurationCapability
    THEN remoteConfig.colorTokenCasing
    ELSE defaultSettings.colorTokenCasing

\* C10: colorPresentation returns, for a document classified as a color
\* language, exactly one label, the {r,g,b} form when the language is cpp or
\* c++ and otherwise the hex form in the configured casing; for a document
\* classified as a reference language or as neither it returns no label.
C10_PresentationByLanguage ==
    PresentationReturned =>
        IF /\ Includes(completed.languages, completed.languageId)
           /\ ~Includes(completed.cssLanguages, completed.languageId)
        THEN IF completed.languageId \in {"cpp", "c++"}
             THEN completed.labels = <<ExpectedTriplet(completed.color)>>
             ELSE completed.labels = <<ExpectedHex(completed.color, ConfiguredCasing)>>
        ELSE completed.labels = << >>

\* C10's case: b.json was classified as a color language and the casing
\* is Lowercase when the settings arrive.
C10_Witness ==
    /\ PresentationReturned
    /\ completed.languageId = "json"
    /\ completed.labels = <<<<"#", "a", "b", "7", "f", "0", "a", "7", "f">>>>

\* The two channels are the same number.
SameNumber(x, y) == x.n * y.d = y.n * x.d

SameColor(c, d) ==
    /\ SameNumber(c.red, d.red)
    /\ SameNumber(c.green, d.green)
    /\ SameNumber(c.blue, d.blue)
    /\ SameNumber(c.alpha, d.alpha)

\* C11: parseColor(stringifyColor(c, casing)) is c in every channel, for
\* every color c of multiples of 1/255 and both casings; a color of alpha
\* 1.0 is written with six digits and read back with alpha 1.0, any other
\* with eight.
C11_HexRoundTrip ==
    call.fn = "parseColor" =>
        /\ SameColor(call.result, call.color)
        /\ Len(call.text) = (IF call.color.alpha.n = call.color.alpha.d THEN 7 ELSE 9)
        /\ call.color.alpha.n = call.color.alpha.d =>
              call.result.alpha.n = call.result.alpha.d

\* C11's case: an opaque color with a one-digit channel code, written in
\* lower case and read back.
C11_Witness ==
    /\ call.fn = "parseColor"
    /\ call.color = ColorOf(9, 171, 254, 255)
    /\ call.casing = "Lowercase"
    /\ call.text = <<"#", "0", "9", "a", "b", "f", "e">>
    /\ call.result.alpha = Frac(255, 255)

\* The literal with every digit of a short literal written twice.
Doubled(short) ==
    [i \in 1..(2 * Len(short) - 1) |-> IF i = 1 THEN "#" ELSE short[(i \div 2) + 1]]

\* A short literal has been decoded.
ShortDecoded == call.fn = "parseColor" /\ Len(call.text) \in {4, 5}

\* C12: parseColor of a 3- or 4-digit literal is parseColor of the literal
\* with every digit doubled: each channel is 17 times its digit over 255,
\* alpha is 1.0 for three digits and 17 times the fourth digit over 255 for
\* four.
C12_ShortHexExpansion ==
    ShortDecoded =>
        LET t == call.text
            r == call.result
        IN  /\ SameColor(r, parseColor(Doubled(t)))
            /\ r.red = Frac(17 * DigitValue(t[2]), 255)
            /\ r.green = Frac(17 * DigitValue(t[3]), 255)
            /\ r.blue = Frac(17 * DigitValue(t[4]), 255)
            /\ SameNumber(r.alpha, IF Len(t) = 4 THEN Frac(1, 1)
                                   ELSE Frac(17 * DigitValue(t[5]), 255))

\* C12's case: #F0ac decodes as #FF00aacc.
C12_Witness ==
    /\ ShortDecoded
    /\ call.text = <<"#", "F", "0", "a", "c">>
    /\ call.result = ColorOf(255, 0, 170, 204)

\* The decimal integers of 0..255 in canonical form.
CanonicalBytes == {NumberToString(n, 10) : n \in 0..ChannelMax}

\* The component is a string of digits.
IsDigits(c) == \A i \in 1..Len(c) : c[i] \in Digits

\* The component is negative or greater than 255.
OutOfRange(c) == c[1] = "-" \/ (IsDigits(c) /\ parseInt(c, 10) > ChannelMax)

\* The component is written with a leading zero.
LeadingZero(c) == IsDigits(c) /\ Len(c) > 1 /\ c[1] = "0"

\* rgbArrayPattern has been applied to a braced triplet.
TripletMatched == call.fn = "rgbArrayPattern"

\* C13: rgbArrayPattern matches the whole of a braced triplet, whatever the
\* whitespace around its integers, when each of r, g, b is a canonical
\* decimal integer of 0..255, capturing the three; it matches nothing in a
\* braced triplet with a component above 255 or negative.
C13_TripletRange ==
    TripletMatched =>
        /\ (call.r \in CanonicalBytes /\ call.g \in CanonicalBytes
                /\ call.b \in CanonicalBytes) =>
              call.result = <<[index |-> 0, length |-> Len(call.text),
                               r |-> call.r, g |-> call.g, b |-> call.b]>>
        /\ (OutOfRange(call.r) \/ OutOfRange(call.g) \/ OutOfRange(call.b)) =>
              call.result = << >>

\* C13's case: { 255 ,\t 0\n, ... } with mixed whitespace matches.
C13_Witness ==
    /\ TripletMatched
    /\ call.text = Braced(<<"2", "5", "5">>, <<"0">>, <<"2", "5", "5">>,
                          <<<<"\t", " ">>, <<"\n">>>>)
    /\ Len(call.result) = 1

\* A triplet with a component written with a leading zero, the others
\* being canonical or written so as well.
LeadingZeroTriplet ==
    /\ TripletMatched
    /\ LeadingZero(call.r) \/ LeadingZero(call.g) \/ LeadingZero(call.b)
    /\ \A c \in {call.r, call.g, call.b} :
           IsDigits(c) /\ parseInt(c, 10) <= ChannelMax

\* C14: rgbArrayPattern matches a triplet with a component written with
\* leading zeros, and the component is decoded as its decimal value
\* ({025,0,0}: 25).
C14_LeadingZerosAccepted ==
    LeadingZeroTriplet =>
        /\ Len(call.result) = 1
        /\ parseInt(call.result[1].r, 10) = parseInt(call.r, 10)

\* C14 as amended: rgbArrayPattern matches nothing in a braced triplet with
\* a component written with a leading zero.
C14_LeadingZerosRejected ==
    (/\ TripletMatched
     /\ LeadingZero(call.r) \/ LeadingZero(call.g) \/ LeadingZero(call.b)) =>
        call.result = << >>

\* C14's case: {025,0,0} has no match.
C14_Witness ==
    /\ TripletMatched
    /\ call.text = <<"{", "0", "2", "5", ",", "0", ",", "0", "}">>
    /\ call.result = << >>

\* '#' followed by exactly 3, 4, 6 or 8 hex digits and nothing else.
WellFormedHex(chars) ==
    /\ Len(chars) \in {4, 5, 7, 9}
    /\ chars[1] = "#"
    /\ \A i \in 2..Len(chars) : chars[i] \in HexDigits

\* The variables a parsed text defines with a color value.
ColorVariables(text) ==
    LET obj == JSONParse(text).obj
    IN  {name \in DOMAIN obj :
            obj[name].type = "string" /\ WellFormedHex(obj[name].chars)}

\* The handler of a change event returned in the last step, having
\* classified the JSON document as a color language and parsed its text.
ChangeParsed ==
    /\ hasConfigurationCapability
    /\ completed.op = "change"
    /\ ~completed.error
    /\ completed.languageId \in {"json", "jsonc"}
    /\ isColor(completed.languages, completed.cssLanguages, completed.languageId)
    /\ JSONParse(Text(completed.doc)).ok

\* C15: when the handler of a successfully parsed change event of a JSON
\* color-language document has returned, the document's sub-map holds
\* exactly the variables the new text defines with a color value.
C15_WholesaleReplacement ==
    ChangeParsed =>
        /\ CacheHas(colorTokenCache, completed.uri)
        /\ DOMAIN CacheGet(colorTokenCache, completed.uri)
             = ColorVariables(Text(completed.doc))

\* C16: every color in colorTokenCache is a complete hex literal.
C16_CachedColorsWellFormed ==
    hasConfigurationCapability =>
        \A i \in 1..Len(colorTokenCache) :
            \A name \in DOMAIN colorTokenCache[i].obj :
                WellFormedHex(colorTokenCache[i].obj[name].color)

\* A documentColor request has returned for a document that its call
\* classified as a color language.
ColorDetectReturned ==
    /\ DetectReturned
    /\ isColor(completed.languages, completed.cssLanguages, completed.languageId)

\* The token of the i-th match of colorTokenPattern in the text.
HexTokenAt(text, i) ==
    LET m == colorTokenPattern(text)[i]
    IN  [range |-> [start |-> positionAt(text, m.index),
                    end |-> positionAt(text, m.index + m.length)],
         color |-> SubSeq(text, m.index + 1, m.index + m.length)]

\* The token of the j-th match of rgbArrayPattern in the text.
TripletTokenAt(text, j) ==
    LET m == rgbArrayPattern(text)[j]
    IN  [range |-> [start |-> positionAt(text, m.index),
                    end |-> positionAt(text, m.index + m.length)],
         color |-> rgbToHexColor(m)]

\* C17: the list findColorTokens returns for a color-language document is
\* the first hex matches in text order, as many as the cap allows, followed
\* in a C++ document by the first triplet matches in text order, as many as
\* the cap still allows after the hex matches; in a document that is not
\* C++ no triplet follows.
C17_HexThenTriplets ==
    ColorDetectReturned =>
        LET text == Text(completed.text)
            nh == Min(Len(colorTokenPattern(text)), completed.max)
            nt == IF completed.languageId \in {"cpp", "c++"}
                  THEN Min(Len(rgbArrayPattern(text)), completed.max - nh)
                  ELSE 0
        IN  /\ Len(completed.colors) = nh + nt
            /\ nh + nt <= completed.max
            /\ \A i \in 1..nh : completed.colors[i] = HexTokenAt(text, i)
            /\ \A j \in 1..nt : completed.colors[nh + j] = TripletTokenAt(text, j)

\* C17's case: t.cpp holds {1,2,3} #abc {4,5,6} #def {7,8,9} and the cap is
\* 4: the two hex tokens come first, then the first two triplets, and the
\* third triplet is not returned.
C17_Witness ==
    /\ ColorDetectReturned
    /\ completed.uri = "t.cpp"
    /\ completed.max = 4
    /\ [i \in 1..Len(completed.colors) |-> completed.colors[i].color] =
         <<<<"#", "a", "b", "c">>, <<"#", "d", "e", "f">>,
           <<"#", "0", "1", "0", "2", "0", "3">>, <<"#", "0", "4", "0", "5", "0", "6">>>>
    /\ [i \in 1..Len(completed.colors) |-> completed.colors[i].range.start.character] =
         <<8, 21, 0, 13>>

ChangeOrCloseOf(uri) ==
    \/ completed'.op = "change" /\ completed'.uri = uri
    \/ documents[uri].open /\ ~documents'[uri].open

\* C19: a step changes the sub-map of a document only inside the handler of
\* a change or close event of that document, and a step in which a
\* documentColor, colorPresentation or definition request returns leaves
\* the whole of colorTokenCache as it was.
C19_CacheFrame ==
    [][/\ \A uri \in Uris :
             SubMap(colorTokenCache', uri) # SubMap(colorTokenCache, uri) =>
                 ChangeOrCloseOf(uri)
       /\ completed'.op \in {"documentColor", "colorPresentation", "definition"} =>
             colorTokenCache' = colorTokenCache]_vars

\* C19's case: the change handler of a.json has returned, having replaced
\* the sub-map of a.json, and b.json has the sub-map of its own text.
C19_Witness ==
    /\ completed.op = "change"
    /\ completed.uri = "a.json"
    /\ CacheHas(colorTokenCache, "a.json")
    /\ CacheHas(colorTokenCache, "b.json")
    /\ DOMAIN CacheGet(colorTokenCache, "a.json") = {NamePrimary, NameAccent}
    /\ DOMAIN CacheGet(colorTokenCache, "b.json") = {NameAccent}
    /\ CacheGet(colorTokenCache, "b.json")[NameAccent].color = <<"#", "a", "b", "c">>

\* uri u comes before uri v in the keys of the cache.
Before(cache, u, v) ==
    \E i, j \in 1..Len(cache) : i < j /\ cache[i].uri = u /\ cache[j].uri = v

\* The step keeps the order of the documents cached before and after it,
\* and puts a document it adds to the cache behind all the others.
OrderKept ==
    /\ \A u, v \in Uris :
          (/\ CacheHas(colorTokenCache, u) /\ CacheHas(colorTokenCache, v)
           /\ CacheHas(colorTokenCache', u) /\ CacheHas(colorTokenCache', v)) =>
              (Before(colorTokenCache', u, v) <=> Before(colorTokenCache, u, v))
    /\ \A u \in Uris :
          (~CacheHas(colorTokenCache, u) /\ CacheHas(colorTokenCache', u)) =>
              colorTokenCache'[Len(colorTokenCache')].uri = u

\* The cached documents that define the name, in the order of the cache.
Definers(cache, name) ==
    SelectSeq(CacheKeys(cache), LAMBDA u : name \in DOMAIN CacheGet(cache, u))

\* The colors of the tokens returned for the range of the reference at
\* the given line and character.
ColorsAt(colors, line, character) ==
    {colors[i].color : i \in {k \in 1..Len(colors) :
                                 /\ colors[k].range.start.line = line
                                 /\ colors[k].range.start.character = character}}

\* A documentColor request on s.css, classified as a CSS language, returned.
SharedDetectReturned ==
    /\ DetectReturned
    /\ completed.uri = "s.css"
    /\ isCSS(completed.cssLanguages, completed.languageId)
    /\ ~isColor(completed.languages, completed.cssLanguages, completed.languageId)

\* A definition request on line 1 of s.css (var(--accent)...) returned.
SharedDefinitionReturned ==
    /\ completed.op = "definition"
    /\ ~completed.error
    /\ completed.uri = "s.css"
    /\ completed.text # ""
    /\ completed.line = 1
    /\ isCSS(completed.cssLanguages, completed.languageId)

\* C20: every step keeps the order in which the cached documents were
\* created (a change event of a cached document leaves its place, a
\* document cached anew goes behind all the others); the color returned
\* for var(--accent) is that of the first document in this order that
\* caches accent, none being returned when there is no such document; and
\* that document is the first location a definition request returns for
\* var(--accent).
C20_EarliestCreatedWins ==
    [][/\ OrderKept
       /\ SharedDetectReturned' =>
             ColorsAt(completed'.colors, 1, 0) =
                 LET ds == Definers(colorTokenCache', NameAccent)
                 IN  IF ds = << >> THEN {}
                     ELSE {CacheGet(colorTokenCache', ds[1])[NameAccent].color}
       /\ SharedDefinitionReturned' =>
             [i \in 1..Len(completed'.locations) |-> completed'.locations[i].uri]
                 = Definers(colorTokenCache', NameAccent)]_vars

\* C20's case: b.json was cached before a.json, both define accent, and
\* the reference var(--accent) of s.css gets the color of b.json.
C20_Witness ==
    /\ SharedDetectReturned
    /\ CacheKeys(colorTokenCache) = <<"b.json", "a.json">>
    /\ Definers(colorTokenCache, NameAccent) = <<"b.json", "a.json">>
    /\ ColorsAt(completed.colors, 1, 0) = {<<"#", "a", "b", "c">>}

====
